---------------------------- MODULE Spec2Model ----------------------------
(***************************************************************************)
(* Model of sv13-tcg-data / server.js: a JSON file store served over HTTP. *)
(*                                                                         *)
(* Strings (request paths, file paths, JSON texts) are sequences of        *)
(* one-character strings, so that the string operations of the source      *)
(* (normalize, regex replace, includes, endsWith, stringify, parse) are    *)
(* computed character by character.  Paths follow the POSIX rules of       *)
(* Node's path module ("/" is the only separator, "\" is an ordinary       *)
(* character).                                                             *)
(***************************************************************************)
EXTENDS Naturals, Sequences, FiniteSets, TLC

VARIABLES
    STORAGE_KEY,   \* the shared secret, fixed at startup ("" = open mode)
    atomicWrite,   \* whether the storage layer makes one writeFile atomic
    dirs,          \* the directories that exist (absolute paths)
    files,         \* the regular files that exist: path -> content
    req,           \* slot -> the request in flight
    pc,            \* slot -> the position of its handler
    res,           \* slot -> the response
    local,         \* slot -> the handler's cleaned, filePath and text
    ops,           \* slot -> the filesystem operations its handler made
    putSeen,       \* file paths some PUT has asked to write
    lastPut,       \* file path -> the slot, body and text of its latest write
    sanIn,         \* the input of sanitize  (specification SpecSanitize)
    sanOut         \* its result             (specification SpecSanitize)

vars == <<STORAGE_KEY, atomicWrite, dirs, files, req, pc, res, local, ops,
          putSeen, lastPut, sanIn, sanOut>>

\* the null of JavaScript, where a string is expected
Null == <<"null">>

-----------------------------------------------------------------------------
(* Strings                                                                 *)

SLASH  == "/"
BSLASH == "\\"
DOT    == "."

RECURSIVE Cat(_)
\* the concatenation of a sequence of strings
Cat(ss) == IF ss = <<>> THEN <<>> ELSE Head(ss) \o Cat(Tail(ss))

Drop(s, n) == SubSeq(s, n + 1, Len(s))

StartsWith(s, p) == Len(s) >= Len(p) /\ SubSeq(s, 1, Len(p)) = p

EndsWith(s, p) ==
    Len(s) >= Len(p) /\ SubSeq(s, Len(s) - Len(p) + 1, Len(s)) = p

\* String.prototype.includes
Includes(s, p) ==
    \E i \in 1..(Len(s) + 1) : i + Len(p) - 1 <= Len(s)
                               /\ SubSeq(s, i, i + Len(p) - 1) = p

LowerChar(c) ==
    CASE c = "J" -> "j" [] c = "S" -> "s" [] c = "O" -> "o" [] c = "N" -> "n"
      [] c = "B" -> "b" [] OTHER -> c

\* String.prototype.toLowerCase
ToLowerCase(s) == [i \in 1..Len(s) |-> LowerChar(s[i])]

DOTDOT   == <<DOT, DOT>>
DOT_JSON == <<".", "j", "s", "o", "n">>

-----------------------------------------------------------------------------
(* path.normalize, path.join, path.dirname (posix)                         *)

RECURSIVE Split(_, _)
\* s.split("/"), with cur the segment being read
Split(s, cur) ==
    IF s = <<>> THEN <<cur>>
    ELSE IF Head(s) = SLASH THEN <<cur>> \o Split(Tail(s), <<>>)
    ELSE Split(Tail(s), Append(cur, Head(s)))

RECURSIVE NormalizeSegs(_, _, _)
\* normalizeString: "" and "." are skipped; ".." removes the segment before
\* it, unless there is none (kept when allowAboveRoot) or it is ".." itself
NormalizeSegs(segs, acc, allowAboveRoot) ==
    IF segs = <<>> THEN acc
    ELSE LET s == Head(segs)
             rest == Tail(segs)
         IN  IF s = <<>> \/ s = <<DOT>>
                 THEN NormalizeSegs(rest, acc, allowAboveRoot)
             ELSE IF s = DOTDOT
                 THEN IF acc # <<>> /\ acc[Len(acc)] # DOTDOT
                          THEN NormalizeSegs(rest, SubSeq(acc, 1, Len(acc) - 1),
                                             allowAboveRoot)
                      ELSE IF allowAboveRoot
                          THEN NormalizeSegs(rest, Append(acc, s), allowAboveRoot)
                      ELSE NormalizeSegs(rest, acc, allowAboveRoot)
             ELSE NormalizeSegs(rest, Append(acc, s), allowAboveRoot)

RECURSIVE JoinSegs(_)
\* segments joined by "/"
JoinSegs(segs) ==
    IF segs = <<>> THEN <<>>
    ELSE IF Len(segs) = 1 THEN Head(segs)
    ELSE Head(segs) \o <<SLASH>> \o JoinSegs(Tail(segs))

\* path.normalize
Normalize(p) ==
    IF p = <<>> THEN <<DOT>>
    ELSE LET isAbsolute == Head(p) = SLASH
             trailingSeparator == p[Len(p)] = SLASH
             body == JoinSegs(NormalizeSegs(Split(p, <<>>), <<>>, ~isAbsolute))
         IN  IF body = <<>>
                 THEN IF isAbsolute THEN <<SLASH>>
                      ELSE IF trailingSeparator THEN <<DOT, SLASH>>
                      ELSE <<DOT>>
             ELSE (IF isAbsolute THEN <<SLASH>> ELSE <<>>)
                  \o body
                  \o (IF trailingSeparator THEN <<SLASH>> ELSE <<>>)

\* path.join(a, b), both non-empty
PathJoin(a, b) == Normalize(a \o <<SLASH>> \o b)

RECURSIVE LastSlash(_, _)
\* the index of the last "/" of p at or before i, 0 when there is none
LastSlash(p, i) ==
    IF i = 0 THEN 0
    ELSE IF p[i] = SLASH THEN i
    ELSE LastSlash(p, i - 1)

\* path.dirname of an absolute path without a trailing separator
Dirname(p) ==
    LET k == LastSlash(p, Len(p))
    IN  IF k <= 1 THEN <<SLASH>> ELSE SubSeq(p, 1, k - 1)

\* path.basename of such a path
Basename(p) == Drop(p, LastSlash(p, Len(p)))

\* p and its ancestors below the filesystem root, outermost first
Ancestors(p) ==
    LET segs == NormalizeSegs(Split(p, <<>>), <<>>, FALSE)
    IN  [i \in 1..Len(segs) |-> <<SLASH>> \o JoinSegs(SubSeq(segs, 1, i))]

\* where the files are read and written
DATA_ROOT == <<SLASH, "r">>

-----------------------------------------------------------------------------
(* sanitize                                                                *)

RECURSIVE StripLeadingDotDots(_)
\* s.replace(/^(\.\.(\/|\\|$))+/, "")
StripLeadingDotDots(s) ==
    IF StartsWith(s, DOTDOT)
        THEN IF Len(s) = 2 THEN <<>>
             ELSE IF s[3] = SLASH \/ s[3] = BSLASH
                 THEN StripLeadingDotDots(Drop(s, 3))
             ELSE s
    ELSE s

RECURSIVE StripLeadingSeps(_)
\* s.replace(/^[/\\]+/, "")
StripLeadingSeps(s) ==
    IF s # <<>> /\ (Head(s) = SLASH \/ Head(s) = BSLASH)
        THEN StripLeadingSeps(Tail(s))
    ELSE s

\* a faulty sanitize, without the check for ".."
SanitizeNoDotDotCheck(pth) ==
    LET cleaned == StripLeadingDotDots(Normalize(pth))
    IN  IF ~EndsWith(ToLowerCase(cleaned), DOT_JSON) THEN Null
        ELSE StripLeadingSeps(cleaned)

\* a faulty sanitize, without the check of the extension
SanitizeNoExtCheck(pth) ==
    LET cleaned == StripLeadingDotDots(Normalize(pth))
    IN  IF Includes(cleaned, DOTDOT) THEN Null
        ELSE StripLeadingSeps(cleaned)

Sanitize(pth) ==
    LET cleaned == StripLeadingDotDots(Normalize(pth))
    IN  IF Includes(cleaned, DOTDOT) THEN Null
        ELSE IF ~EndsWith(ToLowerCase(cleaned), DOT_JSON) THEN Null
        ELSE StripLeadingSeps(cleaned)

-----------------------------------------------------------------------------
(* JSON values, JSON.stringify and JSON.parse                              *)
(*                                                                         *)
(* The values are null, the natural numbers, the number a literal beyond   *)
(* the range of a double parses to (Infinity), arrays, and objects with    *)
(* letter-only keys in insertion order.                                    *)

JNull     == [t |-> "null"]
JNum(n)   == [t |-> "num", n |-> n]
JInfinity == [t |-> "inf"]
JArr(es)  == [t |-> "arr", e |-> es]
JObj(ms)  == [t |-> "obj", m |-> ms]
\* the value of req.body when no middleware has set it
Undefined == [t |-> "undefined"]

QUOTE == "\""
NL    == "\n"
SPACE == " "

DigitChars == <<"0", "1", "2", "3", "4", "5", "6", "7", "8", "9">>
IsDigit(c) == \E i \in 1..10 : DigitChars[i] = c
DigitValue(c) == (CHOOSE i \in 1..10 : DigitChars[i] = c) - 1

RECURSIVE Digits(_)
\* the decimal digits of n
Digits(n) ==
    IF n < 10 THEN <<DigitChars[n + 1]>>
    ELSE Digits(n \div 10) \o <<DigitChars[(n % 10) + 1]>>

RECURSIVE Spaces(_)
Spaces(n) == IF n = 0 THEN <<>> ELSE <<SPACE>> \o Spaces(n - 1)

RECURSIVE Ser(_, _, _)
RECURSIVE SerItems(_, _, _, _)
\* the members of an array (isObj = FALSE) or object, separated by commas
SerItems(items, isObj, gap, depth) ==
    LET it == Head(items)
        one == IF isObj
                   THEN <<QUOTE>> \o it[1] \o <<QUOTE, ":">>
                        \o (IF gap > 0 THEN <<SPACE>> ELSE <<>>)
                        \o Ser(it[2], gap, depth)
               ELSE Ser(it, gap, depth)
        sep == IF gap > 0 THEN <<",", NL>> \o Spaces(gap * depth) ELSE <<",">>
    IN  IF Len(items) = 1 THEN one
        ELSE one \o sep \o SerItems(Tail(items), isObj, gap, depth)

\* the serialization of v at nesting depth `depth`, indented by gap spaces
\* a level (gap = 0: compact); a non-finite number is written null
Ser(v, gap, depth) ==
    CASE v.t = "null" -> <<"n", "u", "l", "l">>
      [] v.t = "inf"  -> <<"n", "u", "l", "l">>
      [] v.t = "num"  -> Digits(v.n)
      [] v.t \in {"arr", "obj"} ->
            LET items == IF v.t = "arr" THEN v.e ELSE v.m
                open  == IF v.t = "arr" THEN "[" ELSE "{"
                close == IF v.t = "arr" THEN "]" ELSE "}"
            IN  IF items = <<>> THEN <<open, close>>
                ELSE IF gap = 0
                    THEN <<open>> \o SerItems(items, v.t = "obj", gap, depth + 1)
                         \o <<close>>
                ELSE <<open, NL>> \o Spaces(gap * (depth + 1))
                     \o SerItems(items, v.t = "obj", gap, depth + 1)
                     \o <<NL>> \o Spaces(gap * depth) \o <<close>>

\* pretty ? JSON.stringify(v, null, 2) : JSON.stringify(v)
Stringify(v, pretty) == Ser(v, IF pretty THEN 2 ELSE 0, 0)

\* Buffer.byteLength of a text of one-byte characters
ByteLength(text) == Len(text)

PFail == [ok |-> FALSE]
POk(v, rest) == [ok |-> TRUE, v |-> v, rest |-> rest]

RECURSIVE SkipWs(_)
SkipWs(s) ==
    IF s # <<>> /\ (Head(s) = SPACE \/ Head(s) = NL) THEN SkipWs(Tail(s)) ELSE s

RECURSIVE PDigits(_, _)
\* the digits at the front of s, read as a number after acc
PDigits(s, acc) ==
    IF s # <<>> /\ IsDigit(Head(s))
        THEN PDigits(Tail(s), 10 * acc + DigitValue(Head(s)))
    ELSE [n |-> acc, rest |-> s]

RECURSIVE Pow10(_)
Pow10(e) == IF e = 0 THEN 1 ELSE 10 * Pow10(e - 1)

\* a number literal: digits, then an optional exponent; a value beyond the
\* range of a double (a decimal exponent above 308) is Infinity
PNumber(s) ==
    LET m == PDigits(s, 0)
    IN  IF m.rest # <<>> /\ Head(m.rest) = "e"
            THEN IF Len(m.rest) < 2 \/ ~IsDigit(m.rest[2]) THEN PFail
                 ELSE LET x == PDigits(Tail(m.rest), 0)
                      IN  IF m.n = 0 THEN POk(JNum(0), x.rest)
                          ELSE IF x.n > 308
                              THEN POk(JInfinity, x.rest)
                          ELSE POk(JNum(m.n * Pow10(x.n)), x.rest)
        ELSE POk(JNum(m.n), m.rest)

RECURSIVE PKey(_, _)
\* the characters up to the closing quote
PKey(s, acc) ==
    IF s = <<>> THEN PFail
    ELSE IF Head(s) = QUOTE THEN POk(acc, Tail(s))
    ELSE PKey(Tail(s), Append(acc, Head(s)))

RECURSIVE PValue(_)
RECURSIVE PArr(_, _, _)
RECURSIVE PObj(_, _, _)

\* the elements of an array, after "[" (first) or after ","
PArr(s0, acc, first) ==
    LET s == SkipWs(s0)
    IN  IF first /\ s # <<>> /\ Head(s) = "]" THEN POk(JArr(acc), Tail(s))
        ELSE LET r == PValue(s)
             IN  IF ~r.ok THEN PFail
                 ELSE LET u == SkipWs(r.rest)
                      IN  IF u = <<>> THEN PFail
                          ELSE IF Head(u) = ","
                              THEN PArr(Tail(u), Append(acc, r.v), FALSE)
                          ELSE IF Head(u) = "]"
                              THEN POk(JArr(Append(acc, r.v)), Tail(u))
                          ELSE PFail

\* the members of an object, after "{" (first) or after ","
PObj(s0, acc, first) ==
    LET s == SkipWs(s0)
    IN  IF first /\ s # <<>> /\ Head(s) = "}" THEN POk(JObj(acc), Tail(s))
        ELSE IF s = <<>> \/ Head(s) # QUOTE THEN PFail
        ELSE LET k == PKey(Tail(s), <<>>)
             IN  IF ~k.ok THEN PFail
                 ELSE LET c == SkipWs(k.rest)
                      IN  IF c = <<>> \/ Head(c) # ":" THEN PFail
                          ELSE LET r == PValue(Tail(c))
                               IN  IF ~r.ok THEN PFail
                                   ELSE LET u == SkipWs(r.rest)
                                            ms == Append(acc, <<k.v, r.v>>)
                                        IN  IF u = <<>> THEN PFail
                                            ELSE IF Head(u) = ","
                                                THEN PObj(Tail(u), ms, FALSE)
                                            ELSE IF Head(u) = "}"
                                                THEN POk(JObj(ms), Tail(u))
                                            ELSE PFail

PValue(s0) ==
    LET s == SkipWs(s0)
    IN  IF s = <<>> THEN PFail
        ELSE IF StartsWith(s, <<"n", "u", "l", "l">>) THEN POk(JNull, Drop(s, 4))
        ELSE IF IsDigit(Head(s)) THEN PNumber(s)
        ELSE IF Head(s) = "[" THEN PArr(Tail(s), <<>>, TRUE)
        ELSE IF Head(s) = "{" THEN PObj(Tail(s), <<>>, TRUE)
        ELSE PFail

\* JSON.parse: [ok |-> FALSE] stands for the SyntaxError it throws
JsonParse(text) ==
    LET r == PValue(text)
    IN  IF r.ok /\ SkipWs(r.rest) = <<>> THEN [ok |-> TRUE, v |-> r.v] ELSE PFail

\* deep equality of two JSON values (members compared in order)
DeepEqual(a, b) == a = b

-----------------------------------------------------------------------------
(* The filesystem: fs.mkdir, fs.writeFile, fs.readFile, existsSync,        *)
(* readdirSync.  An operation fails only where the shape of the tree       *)
(* makes it fail (a file where a directory is needed, or the reverse).     *)

IsDir(d, p)  == p \in d
IsFile(f, p) == p \in DOMAIN f

\* fssync.existsSync
ExistsSync(d, f, p) == IsDir(d, p) \/ IsFile(f, p)

\* a faulty mkdir, not recursive: it fails on a directory that exists
MkdirNotRecursive(d, f, dir) ==
    IF IsDir(d, dir) \/ IsFile(f, dir) \/ ~IsDir(d, Dirname(dir))
        THEN [ok |-> FALSE, dirs |-> d]
    ELSE [ok |-> TRUE, dirs |-> d \cup {dir}]

\* fs.mkdir(dir, { recursive: true }): creates dir and its missing
\* ancestors; fails when one of them is a file
MkdirRecursive(d, f, dir) ==
    LET anc == Ancestors(dir)
    IN  IF \E i \in 1..Len(anc) : IsFile(f, anc[i])
            THEN [ok |-> FALSE, dirs |-> d]
        ELSE [ok |-> TRUE, dirs |-> d \cup {anc[i] : i \in 1..Len(anc)}]

\* the content of p after `text` is written at its start
Overlay(old, text) ==
    IF Len(old) > Len(text) THEN text \o Drop(old, Len(text)) ELSE text

\* a faulty open, which creates p but keeps the content of a p that exists
OpenNoTruncate(d, f, p) ==
    IF IsDir(d, p) \/ ~IsDir(d, Dirname(p))
        THEN [ok |-> FALSE, files |-> f]
    ELSE [ok |-> TRUE, files |-> IF IsFile(f, p) THEN f ELSE (p :> <<>>) @@ f]

\* open(p, "w"): creates p or truncates it
OpenW(d, f, p) ==
    IF IsDir(d, p) \/ ~IsDir(d, Dirname(p))
        THEN [ok |-> FALSE, files |-> f]
    ELSE [ok |-> TRUE, files |-> (p :> <<>>) @@ f]

\* a faulty write, which leaves p the only file of the store
WriteDataAlone(f, p, text) == (p :> text)

\* the write through the descriptor open() returned, from offset 0
WriteData(f, p, text) == (p :> Overlay(f[p], text)) @@ f

\* fs.readFile(p, "utf8")
ReadFileOp(d, f, p) ==
    IF IsFile(f, p) THEN [ok |-> TRUE, txt |-> f[p]] ELSE [ok |-> FALSE]

\* fssync.readdirSync(DATA_ROOT, { withFileTypes: true }), mapped to items
ReadDir(d, f) ==
    {[name |-> Basename(p), dir |-> IsDir(d, p), file |-> IsFile(f, p)] :
        p \in {q \in d \cup DOMAIN f : q # <<SLASH>> /\ Dirname(q) = DATA_ROOT}}

-----------------------------------------------------------------------------
(* Requests and responses                                                  *)

NoHeader == [present |-> FALSE, value |-> ""]
Header(v) == [present |-> TRUE, value |-> v]

NoRequest == [method |-> "-", path |-> <<>>, key |-> NoHeader,
              hasBody |-> FALSE, raw |-> <<>>, qpretty |-> "",
              body |-> Undefined]
NoLocal == [cleaned |-> Null, filePath |-> Null, text |-> <<>>]
NoResponse == [status |-> 0, error |-> "", noStore |-> FALSE, text |-> <<>>,
               path |-> <<>>, bytes |-> 0, items |-> {}]

\* res.status(status).json({ error })
ErrorResponse(status, error) ==
    [NoResponse EXCEPT !.status = status, !.error = error]

\* express.json({ limit: "1mb" }) of the Express the routes "/*" are written
\* for (Express 4, body-parser 1): ok = FALSE when it answers 400 itself,
\* else the req.body it leaves.  req.body is set to {} before the body is
\* looked at, so a request without a body has the body {}; an empty body
\* is {} too; otherwise the first character must open an object or an
\* array and the text must parse.
ExpressJson(r) ==
    IF ~r.hasBody \/ r.raw = <<>> THEN [ok |-> TRUE, body |-> JObj(<<>>)]
    ELSE LET t == SkipWs(r.raw)
             p == JsonParse(r.raw)
         IN  IF t = <<>> \/ Head(t) \notin {"{", "["} \/ ~p.ok
                 THEN [ok |-> FALSE, body |-> JObj(<<>>)]
             ELSE [ok |-> TRUE, body |-> p.v]

\* a faulty requireKey, which lets a request without the header pass
RequireKeyIfPresent(r) ==
    STORAGE_KEY = "" \/ ~r.key.present \/ r.key.value = STORAGE_KEY

\* requireKey: TRUE when it calls next()
RequireKey(r) ==
    STORAGE_KEY = "" \/ (r.key.present /\ r.key.value = STORAGE_KEY)

\* req.query.pretty !== "0"
Pretty(r) == r.qpretty # "0"

-----------------------------------------------------------------------------
(* The handlers.  A request is received into a free slot; the code up to   *)
(* the handler's first await runs in the action that receives it, and each *)
(* awaited filesystem call is an action of its own.                        *)

\* the number of requests that can be in flight together
MaxInFlight == 2

Slots == 1..MaxInFlight

Respond(s, response) ==
    /\ pc' = [pc EXCEPT ![s] = "done"]
    /\ res' = [res EXCEPT ![s] = response]

Did(s, op, p) == ops' = [ops EXCEPT ![s] = Append(@, [op |-> op, path |-> p])]

P_HEALTH == <<"/", "_", "h", "e", "a", "l", "t", "h">>
P_LIST   == <<"/", "_", "l", "i", "s", "t">>

\* express.json answers 400 to a body that does not parse, before any route
JsonError(s, R) ==
    /\ pc[s] = "idle"
    /\ \E r \in R :
        /\ ~ExpressJson(r).ok
        /\ req' = [req EXCEPT ![s] = [r EXCEPT !.body = ExpressJson(r).body]]
        /\ Respond(s, ErrorResponse(400, "entity.parse.failed"))
    /\ UNCHANGED <<STORAGE_KEY, atomicWrite, dirs, files, local, ops, putSeen,
                   lastPut, sanIn, sanOut>>

\* app.get("/_health")
Health(s, R) ==
    /\ pc[s] = "idle"
    /\ \E r \in R :
        /\ ExpressJson(r).ok /\ r.method = "GET" /\ r.path = P_HEALTH
        /\ req' = [req EXCEPT ![s] = [r EXCEPT !.body = ExpressJson(r).body]]
        /\ Respond(s, [NoResponse EXCEPT !.status = 200, !.path = DATA_ROOT])
    /\ UNCHANGED <<STORAGE_KEY, atomicWrite, dirs, files, local, ops, putSeen,
                   lastPut, sanIn, sanOut>>

\* app.get("/_list")
List(s, R) ==
    /\ pc[s] = "idle"
    /\ \E r \in R :
        /\ ExpressJson(r).ok /\ r.method = "GET" /\ r.path = P_LIST
        /\ req' = [req EXCEPT ![s] = [r EXCEPT !.body = ExpressJson(r).body]]
        /\ Did(s, "readdirSync", DATA_ROOT)
        /\ Respond(s, [NoResponse EXCEPT !.status = 200, !.noStore = TRUE,
                                         !.path = DATA_ROOT,
                                         !.items = ReadDir(dirs, files)])
    /\ UNCHANGED <<STORAGE_KEY, atomicWrite, dirs, files, local, putSeen,
                   lastPut, sanIn, sanOut>>

\* app.get("/*"), up to await fs.readFile
GetBegin(s, R) ==
    /\ pc[s] = "idle"
    /\ \E r0 \in R :
        /\ ExpressJson(r0).ok /\ r0.method = "GET" /\ r0.path \notin {P_HEALTH, P_LIST}
        /\ LET r == [r0 EXCEPT !.body = ExpressJson(r0).body]
               cleaned == Sanitize(r.path)
               filePath == PathJoin(DATA_ROOT, cleaned)
           IN  /\ req' = [req EXCEPT ![s] = r]
               /\ IF cleaned = Null \/ cleaned = <<>>
                      THEN /\ Respond(s, ErrorResponse(400, "invalid path"))
                           /\ UNCHANGED <<local, ops>>
                  ELSE /\ local' = [local EXCEPT ![s] =
                               [NoLocal EXCEPT !.cleaned = cleaned,
                                               !.filePath = filePath]]
                       /\ Did(s, "existsSync", filePath)
                       /\ IF ~ExistsSync(dirs, files, filePath)
                              THEN Respond(s, [ErrorResponse(404, "not found")
                                                  EXCEPT !.noStore = TRUE])
                          ELSE /\ pc' = [pc EXCEPT ![s] = "readFile"]
                               /\ UNCHANGED res
    /\ UNCHANGED <<STORAGE_KEY, atomicWrite, dirs, files, putSeen, lastPut,
                   sanIn, sanOut>>

\* app.get("/*"), from await fs.readFile on
ReadFile(s) ==
    /\ pc[s] = "readFile"
    /\ LET rd == ReadFileOp(dirs, files, local[s].filePath)
           parsed == IF rd.txt = <<>> THEN [ok |-> TRUE, v |-> JObj(<<>>)]
                     ELSE JsonParse(rd.txt)
       IN  /\ Did(s, "readFile", local[s].filePath)
           /\ IF ~rd.ok \/ ~parsed.ok
                  THEN Respond(s, ErrorResponse(500, "read failed"))
              ELSE Respond(s, [NoResponse EXCEPT
                                  !.status = 200, !.noStore = TRUE,
                                  !.text = Stringify(parsed.v, Pretty(req[s]))])
    /\ UNCHANGED <<STORAGE_KEY, atomicWrite, dirs, files, req, local, putSeen,
                   lastPut, sanIn, sanOut>>

\* app.put("/*", requireKey, ...), up to await ensureDir
PutBegin(s, R) ==
    /\ pc[s] = "idle"
    /\ \E r0 \in R :
        /\ ExpressJson(r0).ok /\ r0.method = "PUT"
        /\ LET r == [r0 EXCEPT !.body = ExpressJson(r0).body]
               cleaned == Sanitize(r.path)
               filePath == PathJoin(DATA_ROOT, cleaned)
           IN  /\ req' = [req EXCEPT ![s] = r]
               /\ IF ~RequireKey(r)
                      THEN /\ Respond(s, ErrorResponse(403, "forbidden"))
                           /\ UNCHANGED <<local, putSeen>>
                  ELSE IF cleaned = Null \/ cleaned = <<>>
                      THEN /\ Respond(s, ErrorResponse(400, "invalid path"))
                           /\ UNCHANGED <<local, putSeen>>
                  ELSE IF r.body = Undefined
                      THEN /\ Respond(s, ErrorResponse(400, "missing JSON body"))
                           /\ UNCHANGED <<local, putSeen>>
                  ELSE /\ local' = [local EXCEPT ![s] =
                               [NoLocal EXCEPT !.cleaned = cleaned,
                                               !.filePath = filePath]]
                       /\ putSeen' = putSeen \cup {filePath}
                       /\ pc' = [pc EXCEPT ![s] = "ensureDir"]
                       /\ UNCHANGED res
    /\ UNCHANGED <<STORAGE_KEY, atomicWrite, dirs, files, ops, lastPut,
                   sanIn, sanOut>>

\* ensureDir: await fs.mkdir(path.dirname(filePath), { recursive: true });
\* then the text to write is computed
EnsureDir(s) ==
    /\ pc[s] = "ensureDir"
    /\ LET dir == Dirname(local[s].filePath)
           m == MkdirRecursive(dirs, files, dir)
       IN  /\ Did(s, "mkdir", dir)
           /\ dirs' = m.dirs
           /\ IF ~m.ok
                  THEN /\ Respond(s, ErrorResponse(500, "write failed"))
                       /\ UNCHANGED local
              ELSE /\ local' = [local EXCEPT ![s].text =
                                   Stringify(req[s].body, Pretty(req[s]))]
                   /\ pc' = [pc EXCEPT ![s] = "writeFile"]
                   /\ UNCHANGED res
    /\ UNCHANGED <<STORAGE_KEY, atomicWrite, files, req, putSeen, lastPut,
                   sanIn, sanOut>>

\* the answer to a PUT whose file is written
PutOk(s) ==
    [NoResponse EXCEPT !.status = 200, !.noStore = TRUE,
                       !.path = local[s].cleaned,
                       !.bytes = ByteLength(local[s].text)]

\* await fs.writeFile, first half: the file is opened, which empties it
OpenFile(s) ==
    /\ pc[s] = "writeFile" /\ ~atomicWrite
    /\ LET o == OpenW(dirs, files, local[s].filePath)
       IN  /\ Did(s, "open", local[s].filePath)
           /\ files' = o.files
           /\ IF ~o.ok THEN Respond(s, ErrorResponse(500, "write failed"))
              ELSE /\ pc' = [pc EXCEPT ![s] = "writeData"]
                   /\ UNCHANGED res
    /\ UNCHANGED <<STORAGE_KEY, atomicWrite, dirs, req, local, putSeen,
                   lastPut, sanIn, sanOut>>

\* await fs.writeFile, second half: the text is written, and the answer sent
WriteText(s) ==
    /\ pc[s] = "writeData"
    /\ Did(s, "write", local[s].filePath)
    /\ files' = WriteData(files, local[s].filePath, local[s].text)
    /\ lastPut' = (local[s].filePath :>
                      [slot |-> s, body |-> req[s].body,
                       text |-> local[s].text]) @@ lastPut
    /\ Respond(s, PutOk(s))
    /\ UNCHANGED <<STORAGE_KEY, atomicWrite, dirs, req, local, putSeen,
                   sanIn, sanOut>>

\* await fs.writeFile on a storage layer that makes the whole write atomic
WriteFileAtomic(s) ==
    /\ pc[s] = "writeFile" /\ atomicWrite
    /\ LET o == OpenW(dirs, files, local[s].filePath)
       IN  /\ Did(s, "writeFile", local[s].filePath)
           /\ IF ~o.ok
                  THEN /\ Respond(s, ErrorResponse(500, "write failed"))
                       /\ UNCHANGED <<files, lastPut>>
              ELSE /\ files' = WriteData(o.files, local[s].filePath,
                                         local[s].text)
                   /\ lastPut' = (local[s].filePath :>
                                     [slot |-> s, body |-> req[s].body,
                                      text |-> local[s].text]) @@ lastPut
                   /\ Respond(s, PutOk(s))
    /\ UNCHANGED <<STORAGE_KEY, atomicWrite, dirs, req, local, putSeen,
                   sanIn, sanOut>>

\* the fallback: app.use((_req, res) => res.status(404)...)
Fallback(s, R) ==
    /\ pc[s] = "idle"
    /\ \E r \in R :
        /\ ExpressJson(r).ok /\ r.method \notin {"GET", "PUT"}
        /\ req' = [req EXCEPT ![s] = [r EXCEPT !.body = ExpressJson(r).body]]
        /\ Respond(s, ErrorResponse(404, "not found"))
    /\ UNCHANGED <<STORAGE_KEY, atomicWrite, dirs, files, local, ops, putSeen,
                   lastPut, sanIn, sanOut>>

\* the response has been sent: the slot is free again
Finish(s) ==
    /\ pc[s] = "done"
    /\ pc' = [pc EXCEPT ![s] = "idle"]
    /\ req' = [req EXCEPT ![s] = NoRequest]
    /\ res' = [res EXCEPT ![s] = NoResponse]
    /\ local' = [local EXCEPT ![s] = NoLocal]
    /\ ops' = [ops EXCEPT ![s] = <<>>]
    /\ UNCHANGED <<STORAGE_KEY, atomicWrite, dirs, files, putSeen, lastPut,
                   sanIn, sanOut>>

-----------------------------------------------------------------------------
(* The requests the clients send                                           *)

A_JSON == <<"a">> \o DOT_JSON
C_JSON == <<"c">> \o DOT_JSON
B_JSON_UPPER == <<"B", ".", "J", "S", "O", "N">>

\* request paths: /a.json, //d/../a.json, /a.json/B.JSON, /c.json, /a.txt,
\* /..\c.json, /_list, /_health
RawPaths ==
    { <<SLASH>> \o A_JSON,
      <<SLASH, SLASH, "d", SLASH, DOT, DOT, SLASH>> \o A_JSON,
      <<SLASH>> \o A_JSON \o <<SLASH>> \o B_JSON_UPPER,
      <<SLASH>> \o C_JSON,
      <<SLASH, "a", DOT, "t", "x", "t">>,
      <<SLASH, DOT, DOT, BSLASH>> \o C_JSON,
      P_LIST, P_HEALTH }

\* {"score":42}
T_SCORE == <<"{", QUOTE, "s", "c", "o", "r", "e", QUOTE, ":", "4", "2", "}">>
\* {"a":[null,1e999]}
T_HUGE == <<"{", QUOTE, "a", QUOTE, ":", "[", "n", "u", "l", "l", ",",
            "1", "e", "9", "9", "9", "]", "}">>
\* {"a"
T_BAD == <<"{", QUOTE, "a", QUOTE>>

Request(method, path, key, hasBody, raw, qpretty) ==
    [method |-> method, path |-> path, key |-> key, hasBody |-> hasBody,
     raw |-> raw, qpretty |-> qpretty, body |-> Undefined]

Bodies == {<<FALSE, <<>>>>, <<TRUE, <<>>>>, <<TRUE, T_BAD>>, <<TRUE, T_SCORE>>,
           <<TRUE, T_HUGE>>}

Requests ==
    {Request("PUT", p, k, b[1], b[2], q) :
        p \in RawPaths, k \in {NoHeader, Header("k1"), Header("zz")},
        b \in Bodies, q \in {"", "0"}}
    \cup
    {Request("GET", p, k, b[1], b[2], q) :
        p \in RawPaths, k \in {NoHeader, Header("zz")},
        b \in {<<FALSE, <<>>>>, <<TRUE, T_BAD>>}, q \in {"", "0"}}
    \cup
    {Request("DELETE", <<SLASH>> \o A_JSON, k, FALSE, <<>>, "") :
        k \in {NoHeader, Header("k1")}}

\* the requests of the concurrent specification: writes of two documents,
\* pretty or compact (four texts of different lengths), to one nested path,
\* and reads of it
P_NESTED == <<SLASH, "d", SLASH>> \o A_JSON

ConcRequests ==
    {Request("PUT", P_NESTED, NoHeader, TRUE, raw, q) :
        raw \in {T_SCORE, T_HUGE}, q \in {"", "0"}}
    \cup {Request("GET", P_NESTED, NoHeader, FALSE, <<>>, "0")}

-----------------------------------------------------------------------------
(* Specifications                                                          *)

NoSanOut == [done |-> FALSE, cleaned |-> Null, filePath |-> Null]

InitStore ==
    /\ dirs = {<<SLASH>>, DATA_ROOT}
    /\ files = <<>>
    /\ req = [s \in Slots |-> NoRequest]
    /\ pc = [s \in Slots |-> "idle"]
    /\ res = [s \in Slots |-> NoResponse]
    /\ local = [s \in Slots |-> NoLocal]
    /\ ops = [s \in Slots |-> <<>>]
    /\ putSeen = {}
    /\ lastPut = <<>>

\* the server with an empty store, handling one request at a time
Init ==
    /\ STORAGE_KEY \in {"", "k1"}
    /\ atomicWrite = FALSE
    /\ InitStore
    /\ sanIn = <<>>
    /\ sanOut = NoSanOut

Next ==
    \/ JsonError(1, Requests)
    \/ Health(1, Requests)
    \/ List(1, Requests)
    \/ GetBegin(1, Requests)
    \/ ReadFile(1)
    \/ PutBegin(1, Requests)
    \/ EnsureDir(1)
    \/ OpenFile(1)
    \/ WriteText(1)
    \/ Fallback(1, Requests)
    \/ Finish(1)

Spec == Init /\ [][Next]_vars

\* the server in open mode with up to MaxInFlight requests interleaved
InitConc ==
    /\ STORAGE_KEY = ""
    /\ atomicWrite \in BOOLEAN
    /\ InitStore
    /\ sanIn = <<>>
    /\ sanOut = NoSanOut

NextConc ==
    \E s \in Slots :
        \/ GetBegin(s, ConcRequests)
        \/ ReadFile(s)
        \/ PutBegin(s, ConcRequests)
        \/ EnsureDir(s)
        \/ OpenFile(s)
        \/ WriteText(s)
        \/ WriteFileAtomic(s)
        \/ Finish(s)

SpecConc == InitConc /\ [][NextConc]_vars

\* the longest input of sanitize, in pieces
MaxPieces == 6

Pieces == {<<SLASH>>, <<BSLASH>>, <<DOT>>, DOTDOT, <<"a">>, DOT_JSON}

SanitizeInputs ==
    {Cat(ps) : ps \in UNION {[1..n -> Pieces] : n \in 0..MaxPieces}}

InitSanitize ==
    /\ STORAGE_KEY = ""
    /\ atomicWrite = FALSE
    /\ InitStore
    /\ sanIn \in SanitizeInputs
    /\ sanOut = NoSanOut

\* const cleaned = sanitize(req.path); filePath = path.join(DATA_ROOT, cleaned)
CallSanitize ==
    /\ ~sanOut.done
    /\ LET cleaned == Sanitize(sanIn)
       IN  sanOut' = [done |-> TRUE, cleaned |-> cleaned,
                      filePath |-> IF cleaned = Null \/ cleaned = <<>> THEN Null
                                   ELSE PathJoin(DATA_ROOT, cleaned)]
    /\ UNCHANGED <<STORAGE_KEY, atomicWrite, dirs, files, req, pc, res, local,
                   ops, putSeen, lastPut, sanIn>>

SpecSanitize == InitSanitize /\ [][CallSanitize]_vars

-----------------------------------------------------------------------------
(* Properties                                                              *)

RECURSIVE Segments(_, _)
\* the segments of s between separators, "/" and "\" both counted as one
Segments(s, cur) ==
    IF s = <<>> THEN {cur}
    ELSE IF Head(s) = SLASH \/ Head(s) = BSLASH
        THEN {cur} \cup Segments(Tail(s), <<>>)
    ELSE Segments(Tail(s), Append(cur, Head(s)))

\* s ends in ".json", whatever the case of its letters
EndsInJson(s) == EndsWith(ToLowerCase(s), DOT_JSON)

\* the request r is a PUT that app.put("/*") handles past requireKey
\* (the body parser and the gate let it through)
ReachesPutHandler(r) ==
    /\ r.method = "PUT"
    /\ ExpressJson(r).ok
    /\ STORAGE_KEY = "" \/ (r.key.present /\ r.key.value = STORAGE_KEY)

\* the request r is a GET that app.get("/*") handles
ReachesGetHandler(r) ==
    /\ r.method = "GET"
    /\ r.path \notin {P_HEALTH, P_LIST}
    /\ ExpressJson(r).ok

\* slot s holds a PUT that has been answered 200
PutDone(s) == pc[s] = "done" /\ req[s].method = "PUT" /\ res[s].status = 200

\* slot s holds a GET of a file path that has been answered
GetDone(s) ==
    pc[s] = "done" /\ req[s].method = "GET" /\ local[s].filePath # Null

(* C1: for every raw path, sanitize returns null or a non-empty relative    *)
(* path with no ".." segment and no leading separator, and DATA_ROOT joined *)
(* with it lies below DATA_ROOT.                                            *)
C1_SanitizeConfined ==
    (sanOut.done /\ sanOut.cleaned # Null) =>
        /\ sanOut.cleaned # <<>>
        /\ DOTDOT \notin Segments(sanOut.cleaned, <<>>)
        /\ Head(sanOut.cleaned) \notin {SLASH, BSLASH}
        /\ StartsWith(sanOut.filePath, DATA_ROOT \o <<SLASH>>)
        /\ DOTDOT \notin Segments(sanOut.filePath, <<>>)

\* an input with two leading "../" segments that sanitize accepts
C1_Witness ==
    /\ sanOut.done
    /\ sanOut.cleaned # Null
    /\ StartsWith(sanIn, <<DOT, DOT, SLASH, DOT, DOT, SLASH>>)

(* C2: a request whose normalized path does not end in ".json" (in any      *)
(* case) never gets past sanitize: it is answered without a read or a       *)
(* write; and every file of the store has a name ending in ".json" (in any  *)
(* case).                                                                   *)
C2_OnlyJsonFiles ==
    /\ \A s \in Slots :
         (pc[s] # "idle" /\ req[s].method \in {"GET", "PUT"}
            /\ ~(req[s].method = "GET" /\ req[s].path \in {P_HEALTH, P_LIST})
            /\ ~EndsInJson(Normalize(req[s].path)))
         => (pc[s] = "done" /\ res[s].status \in {400, 403}
               /\ ops[s] = <<>> /\ local[s] = NoLocal)
    /\ \A p \in DOMAIN files : EndsInJson(Basename(p))

\* a file whose extension is written in capitals, beside a rejected a.txt
C2_Witness ==
    /\ \E p \in DOMAIN files : EndsWith(p, B_JSON_UPPER)
    /\ pc[1] = "done" /\ req[1].method = "PUT"
    /\ ~EndsInJson(Normalize(req[1].path))
    /\ res[1] = ErrorResponse(400, "invalid path")

\* every number of v is finite
RECURSIVE Finite(_)
Finite(v) ==
    CASE v.t = "inf" -> FALSE
      [] v.t = "arr" -> \A i \in 1..Len(v.e) : Finite(v.e[i])
      [] v.t = "obj" -> \A i \in 1..Len(v.m) : Finite(v.m[i][2])
      [] OTHER -> TRUE

\* the GET in slot s returns the document last written to its path
ReturnsLastPut(s) ==
    /\ res[s].status = 200
    /\ LET got == JsonParse(res[s].text)
       IN  got.ok /\ DeepEqual(got.v, lastPut[local[s].filePath].body)

(* C3 as stated: a GET of a path returns a value deep-equal to the document *)
(* of the latest successful PUT to that path, whatever the pretty flags.    *)
C3_RoundTripAnyDocument ==
    \A s \in Slots :
        (GetDone(s) /\ local[s].filePath \in DOMAIN lastPut)
        => ReturnsLastPut(s)

(* C3 amended: the same, for a document all of whose numbers are finite     *)
(* doubles.                                                                 *)
C3_RoundTripFinite ==
    \A s \in Slots :
        (GetDone(s) /\ local[s].filePath \in DOMAIN lastPut
           /\ Finite(lastPut[local[s].filePath].body))
        => ReturnsLastPut(s)

\* a document written compact is read back pretty-printed
C3_Witness ==
    /\ GetDone(1) /\ local[1].filePath \in DOMAIN lastPut
    /\ lastPut[local[1].filePath].body = JsonParse(T_SCORE).v
    /\ res[1].status = 200
    /\ res[1].text # files[local[1].filePath]

(* C4: a GET of a valid path that no PUT has asked to write is answered     *)
(* 404 "not found".                                                         *)
C4_NeverWrittenIsNotFound ==
    \A s \in Slots :
        (GetDone(s) /\ local[s].filePath \notin putSeen)
        => res[s] = [ErrorResponse(404, "not found") EXCEPT !.noStore = TRUE]

(* C5: a PUT to a valid path that passes the gate and has no body, or an    *)
(* empty one, is answered 400 "missing JSON body" with no filesystem        *)
(* operation.                                                               *)
C5_EmptyBodyRejected ==
    \A s \in Slots :
        (pc[s] # "idle" /\ ReachesPutHandler(req[s])
           /\ (~req[s].hasBody \/ req[s].raw = <<>>)
           /\ EndsInJson(Normalize(req[s].path))
           /\ ~Includes(Normalize(req[s].path), DOTDOT))
        => (pc[s] = "done" /\ ops[s] = <<>>
              /\ res[s] = ErrorResponse(400, "missing JSON body"))

\* r carries a key that is not the secret, or none
WrongKey(r) == ~(r.key.present /\ r.key.value = STORAGE_KEY)

(* C6 as stated: with a secret set, every PUT without the right key is      *)
(* answered 403 with no filesystem operation; without a secret no PUT is    *)
(* answered 403; no GET is answered 403.                                    *)
C6_WrongKeyAlwaysForbidden ==
    \A s \in Slots :
        /\ (pc[s] # "idle" /\ req[s].method = "PUT" /\ STORAGE_KEY # ""
              /\ WrongKey(req[s]))
           => (pc[s] = "done" /\ res[s] = ErrorResponse(403, "forbidden")
                 /\ ops[s] = <<>> /\ local[s] = NoLocal)
        /\ (STORAGE_KEY = "" \/ req[s].method = "GET") => res[s].status # 403

(* C6 amended: with a secret set, a PUT without the right key is answered   *)
(* in the step that receives it, 403 when its body passes the JSON body     *)
(* parser and the parser's 400 when it does not, with no filesystem         *)
(* operation and the store unchanged; without a secret no PUT is answered   *)
(* 403; no GET is answered 403.                                             *)
C6_WrongKeyNeverStored ==
    [][\A s \in Slots :
         (pc[s] = "idle" /\ pc'[s] # "idle") =>
            /\ (req'[s].method = "PUT" /\ STORAGE_KEY # "" /\ WrongKey(req'[s]))
               => /\ pc'[s] = "done"
                  /\ res'[s] = IF ExpressJson(req'[s]).ok
                                   THEN ErrorResponse(403, "forbidden")
                               ELSE ErrorResponse(400, "entity.parse.failed")
                  /\ ops'[s] = <<>> /\ local'[s] = NoLocal
                  /\ dirs' = dirs /\ files' = files
            /\ (STORAGE_KEY = "" \/ req'[s].method = "GET")
               => res'[s].status # 403]_vars

\* a PUT of a document to a valid path, without the key, answered 403
C6_Witness ==
    /\ STORAGE_KEY # "" /\ pc[1] = "done" /\ req[1].method = "PUT"
    /\ ~req[1].key.present
    /\ req[1].raw = T_SCORE /\ req[1].path = <<SLASH>> \o A_JSON
    /\ res[1] = ErrorResponse(403, "forbidden")

(* C7: a GET or a PUT that reaches its handler with a path sanitize rejects *)
(* (".." left after normalization, or no ".json" ending) is answered 400    *)
(* "invalid path" in that step, with no filesystem operation and the store  *)
(* unchanged.                                                               *)
C7_InvalidPathTouchesNothing ==
    [][\A s \in Slots :
         (pc[s] = "idle" /\ pc'[s] # "idle"
            /\ (ReachesGetHandler(req'[s]) \/ ReachesPutHandler(req'[s]))
            /\ (~EndsInJson(Normalize(req'[s].path))
                  \/ Includes(StripLeadingDotDots(Normalize(req'[s].path)),
                              DOTDOT)))
         => /\ pc'[s] = "done"
            /\ res'[s] = ErrorResponse(400, "invalid path")
            /\ ops'[s] = <<>> /\ local'[s] = NoLocal
            /\ dirs' = dirs /\ files' = files]_vars

\* a PUT of a document with the right key to /..\c.json, answered 400
C7_Witness ==
    /\ pc[1] = "done" /\ req[1].method = "PUT" /\ ReachesPutHandler(req[1])
    /\ req[1].raw = T_SCORE
    /\ req[1].path = <<SLASH, DOT, DOT, BSLASH>> \o C_JSON
    /\ res[1] = ErrorResponse(400, "invalid path")
    /\ files # <<>>

C9_PutIdempotent ==
    \A s \in Slots : PutDone(s) =>
        LET fp == local[s].filePath
            text == Stringify(req[s].body, Pretty(req[s]))
            m == MkdirRecursive(dirs, files, Dirname(fp))
            o == OpenW(m.dirs, files, fp)
        IN  /\ files[fp] = text
            /\ m.ok /\ m.dirs = dirs
            /\ o.ok /\ WriteData(o.files, fp, text) = files
            /\ res[s].path = Sanitize(req[s].path)
            /\ res[s].bytes = ByteLength(text)

\* a compact document of 12 bytes written to a nested file
C9_Witness ==
    /\ PutDone(1) /\ req[1].raw = T_SCORE /\ ~Pretty(req[1])
    /\ local[1].filePath =
          DATA_ROOT \o <<SLASH>> \o A_JSON \o <<SLASH>> \o B_JSON_UPPER
    /\ res[1].bytes = 12

(* C10: with atomic file writes, when two PUTs to one path are both         *)
(* answered 200 and the latest write of the file was by one of them, the    *)
(* file holds exactly the serialization of that one's document.             *)
C10_LastWriteWins ==
    atomicWrite =>
        \A s1, s2 \in Slots :
            (s1 # s2 /\ PutDone(s1) /\ PutDone(s2)
               /\ local[s1].filePath = local[s2].filePath
               /\ lastPut[local[s1].filePath].slot \in {s1, s2})
            => LET w == lastPut[local[s1].filePath].slot
               IN  files[local[s1].filePath] =
                       Stringify(req[w].body, Pretty(req[w]))

\* two PUTs of different documents to one path, both answered 200
C10_Witness ==
    /\ atomicWrite
    /\ PutDone(1) /\ PutDone(2)
    /\ local[1].filePath = local[2].filePath
    /\ req[1].raw = T_HUGE /\ req[2].raw = T_SCORE
    /\ lastPut[local[1].filePath].slot = 2

=============================================================================
